---- MODULE Spec2Model ----
(***************************************************************************)
(* TinyMark: the line parser, the structural renderer, the block registry  *)
(* and the action runtime of the two engines of the repository:            *)
(*   "flash"   = src/tinymark.js        (TinyMarkEngine / TinyMarkRenderer) *)
(*   "contrib" = src/unnamed/part_001   (parseLines / executeCallAction)    *)
(* Exactly one engine is loaded in a page; impl says which.                *)
(***************************************************************************)
EXTENDS Integers, Sequences, FiniteSets, TLC

VARIABLES
  impl,          \* which engine file the page loaded
  mounted,       \* [Instances -> BOOLEAN]: connectedCallback has run
  observing,     \* [Instances -> BOOLEAN]: the MutationObserver of the instance is set up
  allowJs,       \* [Instances -> BOOLEAN]: the allow-js attribute
  text,          \* [Instances -> DocNames]: the inline source (textContent)
  out,           \* [Instances -> Seq(element)]: children of the shadow root
  hiddenBlocks,  \* HiddenBlockRegistry: id -> body (Seq(line)) or NoBody
  placeholders,  \* PlaceholderRegistry: id -> node reference or NoRef
  lazyNode,      \* id -> the section appended to document.body, or NoNode
  declNode,      \* [Instances -> [Ids -> node]]: `.placeholder` nodes of the current output
  detNode,       \* id -> a registered node that is in no document, or NoNode
  timers,        \* [Ids -> 0..]: pending 300 ms hide callbacks (flash)
  idFunctions,   \* FunctionRegistry: id -> the body of its function:oncall(...)
  onloads,       \* Seq(handler): pending 100 ms callbacks of function:onload (contrib)
  srcAttr,       \* [Instances -> Urls \cup {NoUrl}]: the src attribute
  inflight,      \* set of fetches issued and not yet answered
  seq,           \* [Instances -> Nat]: number of fetches issued so far
  fx,            \* what the last operation did: console.warn calls, js codes run, actions interpreted
  last,          \* the last operation and its arguments
  parser         \* a parse of a source text line by line: the lines, the cursor, the nodes so far

vars == <<impl, mounted, observing, allowJs, text, out, hiddenBlocks, placeholders, lazyNode,
          declNode, detNode, timers, idFunctions, onloads, srcAttr, inflight, seq, fx, last,
          parser>>

Instances == {1, 2}
Ids == {"p1", "p2"}
Impls == {"flash", "contrib"}

\* ---------------------------------------------------------------- bounds
MaxTimers == 2
MaxFetch == 3
\* the longest document of the model
MaxLines == 6
\* the most 100 ms onload callbacks pending at once
MaxOnloads == 2
\* the most physical lines of a source text handed to the line parsers
MaxPhys == 4

\* ---------------------------------------------------------------- source lines
\* A physical line `.sel "txt" id:ID function:FN(ACT)`; ind: it has leading
\* white space; sel = "" is a comment or plain line.
Line(ind, sel, txt, id, fn, act) ==
  [ind |-> ind, sel |-> sel, txt |-> txt, id |-> id, fn |-> fn, act |-> act]

NoAct == [verb |-> "none", id |-> ""]
Js == [verb |-> "js", id |-> "doSomething()"]
Call(verb, id) == [verb |-> verb, id |-> id]

T(ind, txt) == Line(ind, "t", txt, "", "", NoAct)
Hide(ind, id) == Line(ind, "hide", "", id, "", NoAct)
EndHide(ind) == Line(ind, "endhide", "", "", "", NoAct)
Placeholder(ind, id) == Line(ind, "placeholder", "", id, "", NoAct)
Btn(ind, fn, act) == Line(ind, "btn", "go", "", fn, act)
Comment(ind) == Line(ind, "", "", "", "", NoAct)
\* `.id "name" function:kind(body)`
IdLine(ind, name, kind, act) == Line(ind, "id", name, "", kind, act)
\* the action `call:F` and the action `call:(id:F)`
CallFn(f) == [verb |-> "call", id |-> f]
CallId(f) == [verb |-> "callid", id |-> f]
\* a body that is TinyMark source: `.t "txt"`
Markup(txt) == [verb |-> "markup", id |-> txt]
\* the action lines of the script `call:show:p1` / `call:hide:p2`
ScriptActs(name) == <<Call("show", "p1"), Call("hide", "p2")>>
\* the first `call:ACTION:ID` a regular expression without the g flag finds
firstCall(acts) ==
  LET ks == {k \in DOMAIN acts : acts[k].verb \in {"hide", "unhide", "show", "toggle"}}
  IN IF ks = {} THEN NoAct ELSE acts[CHOOSE k \in ks : \A m \in ks : k <= m]

\* ---------------------------------------------------------------- rendered nodes
\* A handler attached to an element: k = "none" (no listener), "fn" (the click
\* listener of function:onclick, part_001:575), "jsattr" (the click listener of
\* a bare onclick:js:..., part_001:588); ctx and js are the shadowRoot and the
\* allowJs the listener's closure captured (ctx = 0: null).
NoH == [k |-> "none", act |-> NoAct, ctx |-> 0, js |-> FALSE]
Handler(k, act, ctx, js) == [k |-> k, act |-> act, ctx |-> ctx, js |-> js]
\* An output node: the line it was created from (data-tmk-raw) and its listener.
Element(line, h) == [src |-> line, h |-> h]

\* What one render pass produced: the nodes appended to the fragment, the
\* registerHideBlock calls <<id, body>> in order, the `.placeholder` ids bound
\* in order, and the number of console.warn calls; fns: the idFunctions
\* entries <<id, body>> written, loads: the function:onload callbacks handed
\* to setTimeout, threw: the pass ended in an uncaught exception.
Pass(els, regs, phs, warns) ==
  [els |-> els, regs |-> regs, phs |-> phs, warns |-> warns,
   fns |-> <<>>, loads |-> <<>>, threw |-> FALSE]
EmptyPass == Pass(<<>>, <<>>, <<>>, 0)
\* the uncaught TypeError of a line: nothing after it runs
Thrown == [EmptyPass EXCEPT !.threw = TRUE]

\* The id a `.hide` line without id is registered under by tinymark.js:597
\* ('anon-' + Date.now()); part_001 registers nothing for it.
AnonId == "anon"

\* ---------------------------------------------------------------- flash: TinyMarkRenderer
\* /^\.hide(?:\s+id\s*:\s*("?)([^"\s]+)\1)?\s*$/i on the raw (untrimmed) line
hideStartMatch(line) ==
  /\ ~line.ind
  /\ line.sel = "hide"
  /\ line.txt = ""
  /\ line.fn = ""

\* /^\.endhide(?:\s+id\s*:\s*("?)[^"\s]+\1)?\s*$/i on the trimmed line
endhideMatch(line) ==
  /\ line.sel = "endhide"
  /\ line.txt = ""
  /\ line.fn = ""

\* while (i < lines.length && !lines[i].trim().match(endhide)) blockBody.push(lines[i++])
RECURSIVE flashHideEnd(_, _)
flashHideEnd(lines, i) ==
  IF i > Len(lines) \/ endhideMatch(lines[i]) THEN i ELSE flashHideEnd(lines, i + 1)

\* The selectors of renderNode's switch that create an element.
FlashTags == {"t", "btn", "card", "row", "col"}

\* wireFunction is reached only for the attribute keys onclick / onload, with
\* type = key.replace('on', '') = "click" / "load"; it adds a listener only for
\* type "onclick", "oncall" or "onload".
wireFunction(type, payload, ctx, js) ==
  IF type \in {"onclick", "oncall", "onload"} THEN Handler("fn", payload, ctx, js) ELSE NoH

\* function:NAME(...) is the attribute key "function" (default arm: setAttribute);
\* a bare onclick:A is the key "onclick".
renderNode(line, js) ==
  IF line.sel \in FlashTags
  THEN Pass(<<Element(line, IF line.fn = "attr"
                            THEN wireFunction("click", line.act, 1, js)
                            ELSE NoH)>>,
            <<>>, <<>>, 0)
  ELSE IF line.sel = "id"
       THEN IF line.id # ""
            THEN Thrown   \* TinyMarkEngine.placeholders is undefined (line 279)
            ELSE Pass(<<Element(line, NoH)>>, <<>>, <<>>, 0)
  ELSE IF line.sel \in {"hide", "endhide"}
       THEN EmptyPass
       ELSE Pass(<<>>, <<>>, <<>>, 1)   \* console.warn: Unknown selector

\* a is the pass of a line, b of the lines after it
Join(a, b) ==
  IF a.threw THEN a
  ELSE [els |-> a.els \o b.els, regs |-> a.regs \o b.regs, phs |-> a.phs \o b.phs,
        warns |-> a.warns + b.warns, fns |-> a.fns \o b.fns, loads |-> a.loads \o b.loads,
        threw |-> b.threw]

\* TinyMarkRenderer.toFragment(tinyText, isFragmentOnly), from line i on; js is
\* the allow-js attribute of document.querySelector('tiny-mark').
RECURSIVE toFragmentFrom(_, _, _, _)
toFragmentFrom(lines, i, isFragmentOnly, js) ==
  IF i > Len(lines) THEN EmptyPass
  ELSE LET line == lines[i] IN
    IF hideStartMatch(line) /\ ~isFragmentOnly
    THEN LET j == flashHideEnd(lines, i + 1)
             id == IF line.id = "" THEN AnonId ELSE line.id
             next == IF j <= Len(lines) THEN j + 1 ELSE j
         IN Join(Pass(<<>>, <<<<id, SubSeq(lines, i + 1, j - 1)>>>>, <<>>, 0),
                 toFragmentFrom(lines, next, isFragmentOnly, js))
    ELSE IF line.sel = ""
         THEN toFragmentFrom(lines, i + 1, isFragmentOnly, js)
    ELSE IF /\ line.sel = "id"
            /\ ~isFragmentOnly
            /\ (line.id # "" \/ line.txt # "")
            /\ line.fn \in {"appear", "disappear", "onload"}
         THEN Thrown   \* registerId: TinyMarkEngine.idFunctions is undefined (line 55)
         ELSE Join(renderNode(line, js), toFragmentFrom(lines, i + 1, isFragmentOnly, js))

toFragment(lines, isFragmentOnly, js) == toFragmentFrom(lines, 1, isFragmentOnly, js)

\* this.textContent.trim(): the white space before the first line is removed
\* (the text of the model neither starts nor ends with a blank line).
Trim(lines) ==
  IF lines = <<>> THEN lines ELSE <<[lines[1] EXCEPT !.ind = FALSE]>> \o Tail(lines)

\* ---------------------------------------------------------------- contrib: parseLines
\* while (i < lines.length) { if (lines[i].trim().startsWith('.endhide')) break; ... }
RECURSIVE contribHideEnd(_, _)
contribHideEnd(lines, i) ==
  IF i > Len(lines) \/ lines[i].sel = "endhide" THEN i ELSE contribHideEnd(lines, i + 1)

\* createElementFromParsed(item, shadowRoot, allowJs) for one parsed line
createElementFromParsed(line, ctx, js) ==
  IF line.sel = "placeholder"
  THEN Pass(<<Element(line, NoH)>>, <<>>, <<line.id>>, 0)
  ELSE LET h == IF line.fn = "onclick" /\ line.act # NoAct
                THEN Handler("fn", line.act, ctx, js)
                ELSE IF line.fn = "attr" /\ line.act.verb = "js" /\ js
                     THEN Handler("jsattr", line.act, ctx, js)
                     ELSE NoH
           blocked == line.fn = "attr" /\ line.act.verb = "js" /\ ~js
           fns == IF line.sel = "id" /\ line.fn = "oncall" /\ line.act # NoAct
                  THEN <<<<IF line.id # "" THEN line.id ELSE line.txt, line.act>>>>
                  ELSE <<>>
           loads == IF line.fn = "onload" /\ line.act # NoAct
                    THEN <<Handler("load", line.act, ctx, js)>>
                    ELSE <<>>
       IN [Pass(<<Element(line, h)>>, <<>>, <<>>, IF blocked THEN 1 ELSE 0)
             EXCEPT !.fns = fns, !.loads = loads]

\* parseLines(input) followed by createElementFromParsed of every parsed item
\* (renderTinyMarkFragment, render, loadFromSrc and toHTML all run this pair).
RECURSIVE parseLinesFrom(_, _, _, _)
parseLinesFrom(lines, i, ctx, js) ==
  IF i > Len(lines) THEN EmptyPass
  ELSE LET line == lines[i] IN
    IF line.sel = "" \/ line.sel = "endhide"
    THEN parseLinesFrom(lines, i + 1, ctx, js)
    ELSE IF line.sel = "hide"
         THEN LET j == contribHideEnd(lines, i + 1)
                  id == IF line.id # "" THEN line.id ELSE line.txt
                  reg == IF id = "" THEN <<>> ELSE <<<<id, SubSeq(lines, i + 1, j - 1)>>>>
              IN Join(Pass(<<>>, reg, <<>>, 0), parseLinesFrom(lines, j + 1, ctx, js))
         ELSE Join(createElementFromParsed(line, ctx, js), parseLinesFrom(lines, i + 1, ctx, js))

renderTinyMarkFragment(lines, ctx, js) == parseLinesFrom(lines, 1, ctx, js)

\* ---------------------------------------------------------------- registries and nodes
\* f with key k bound to v (obj[k] = v)
Upd(f, k, v) == [x \in (DOMAIN f) \cup {k} |-> IF x = k THEN v ELSE f[x]]
Empty == [x \in {} |-> 0]

\* A placeholder node: style.display and the child elements (innerHTML).
Node(disp, content) == [disp |-> disp, content |-> content]
HiddenNode == Node("none", <<>>)

\* Where a registered placeholder node is: appended to document.body by
\* getOrCreatePlaceholder ("lazy"), created by a `.placeholder` line of the
\* current output of instance inst ("decl"), or in no document ("det").
LazyRef == [loc |-> "lazy", inst |-> 0]
DeclRef(i) == [loc |-> "decl", inst |-> i]
DetRef == [loc |-> "det", inst |-> 0]

\* threw: an exception left the operation uncaught
NoFx == [warns |-> 0, ran |-> <<>>, interp |-> <<>>, threw |-> FALSE]

\* The shared registries, the host tree and the effects of the running operation.
World ==
  [hb |-> hiddenBlocks, ph |-> placeholders, lazy |-> lazyNode, decl |-> declNode,
   det |-> detNode, tm |-> timers, out |-> out, fx |-> NoFx,
   fn |-> idFunctions, ol |-> onloads]

Warn(W, n) == [W EXCEPT !.fx.warns = @ + n]
Run(W, code) == [W EXCEPT !.fx.ran = Append(@, code)]
Interp(W, act) == [W EXCEPT !.fx.interp = Append(@, act)]
Throw(W) == [W EXCEPT !.fx.threw = TRUE]

NodeAt(W, id) ==
  LET r == W.ph[id] IN
  IF r.loc = "lazy" THEN W.lazy[id]
  ELSE IF r.loc = "decl" THEN W.decl[r.inst][id] ELSE W.det[id]

PutNode(W, id, n) ==
  LET r == W.ph[id] IN
  IF r.loc = "lazy" THEN [W EXCEPT !.lazy = Upd(@, id, n)]
  ELSE IF r.loc = "decl" THEN [W EXCEPT !.decl[r.inst] = Upd(@, id, n)]
  ELSE [W EXCEPT !.det = Upd(@, id, n)]

\* registerHideBlock for the registrations of a pass, in order (last wins)
RECURSIVE registerHideBlocks(_, _)
registerHideBlocks(hb, regs) ==
  IF regs = <<>> THEN hb
  ELSE registerHideBlocks(Upd(hb, Head(regs)[1], Head(regs)[2]), Tail(regs))

\* `!body`: no entry, or the empty string
NoBody(W, id) == id \notin DOMAIN W.hb \/ W.hb[id] = <<>>

\* getOrCreatePlaceholder without `node.style.display = 'none'`
getOrCreatePlaceholderShown(W, id) ==
  IF id \in DOMAIN W.ph THEN W
  ELSE [W EXCEPT !.lazy = Upd(@, id, Node("", <<>>)), !.ph = Upd(@, id, LazyRef)]

\* getOrCreatePlaceholder(id); the page holds no [data-tmk-id] element of its own
getOrCreatePlaceholder(W, id) ==
  IF id \in DOMAIN W.ph THEN W
  ELSE [W EXCEPT !.lazy = Upd(@, id, HiddenNode), !.ph = Upd(@, id, LazyRef)]

\* placeholder.innerHTML && placeholder.style.display !== 'none'
Showing(n) == n.content # <<>> /\ n.disp # "none"

\* ---------------------------------------------------------------- flash: executeCallAction
\* show / appear / unhide; js1 is the allow-js of the first <tiny-mark>
flashShow(W, id, js1) ==
  LET W1 == getOrCreatePlaceholder(W, id) IN
  IF NoBody(W1, id) THEN Warn(W1, 1)
  ELSE IF Showing(NodeAt(W1, id)) THEN W1
  ELSE LET P == toFragment(W1.hb[id], TRUE, js1)
       IN IF P.threw THEN Throw(Warn(W1, P.warns))
          ELSE Warn(PutNode(W1, id, Node("", P.els)), P.warns)

\* hide / disappear: the 300 ms timer is only scheduled
flashHide(W, id) ==
  LET W1 == getOrCreatePlaceholder(W, id) IN [W1 EXCEPT !.tm[id] = @ + 1]

flashToggle(W, id, js1) ==
  LET W1 == getOrCreatePlaceholder(W, id)
      n == NodeAt(W1, id)
  IN IF n.disp = "none" \/ n.content = <<>> THEN flashShow(W1, id, js1) ELSE flashHide(W1, id)

flashCallAction(W, action, id, js1) ==
  IF action \in {"show", "appear", "unhide"} THEN flashShow(W, id, js1)
  ELSE IF action \in {"hide", "disappear"} THEN flashHide(W, id)
  ELSE IF action = "toggle" THEN flashToggle(W, id, js1)
  ELSE Warn(getOrCreatePlaceholder(W, id), 1)

\* a timer callback that leaves the placeholder as it is
flashHideTimeoutKeep(W, id) == [W EXCEPT !.tm[id] = @ - 1]

\* the callback of setTimeout(..., 300) in the hide arm; the placeholders of
\* flash are the lazy nodes only
flashHideTimeout(W, id) ==
  [W EXCEPT !.tm[id] = @ - 1, !.lazy = Upd(@, id, HiddenNode)]

\* TinyMarkEngine.executeAction(actionStr, contextElement, allowJs)
executeAction(W, act, js, js1) ==
  LET W1 == Interp(W, act) IN
  IF act.verb = "js"
  THEN IF js THEN Run(W1, act.id) ELSE Warn(W1, 1)
  ELSE IF act.verb = "none" THEN W1
  ELSE IF act.verb \in {"call", "callid", "markup"}
       THEN Warn(W1, 1)   \* Invalid call action syntax / Unknown action prefix
  ELSE IF act.verb = "script"
       \* the match of /^([a-zA-Z]+):"?([a-zA-Z0-9_\-]+)"?/ behind the first call:
       THEN flashCallAction(W1, ScriptActs(act.id)[1].verb, ScriptActs(act.id)[1].id, js1)
  ELSE flashCallAction(W1, act.verb, act.id, js1)

\* ---------------------------------------------------------------- contrib: executeCallAction
contribShow(W, id, ctx, js) ==
  LET W1 == getOrCreatePlaceholder(W, id) IN
  IF NoBody(W1, id) THEN Warn(W1, 1)
  ELSE LET P == renderTinyMarkFragment(W1.hb[id], ctx, js)
           W2 == [W1 EXCEPT !.hb = registerHideBlocks(@, P.regs),
                            !.fn = registerHideBlocks(@, P.fns),
                            !.ol = @ \o P.loads]
       IN Warn(PutNode(W2, id, Node("", P.els)), P.warns)

\* the hide arm without `placeholder.innerHTML = ''`
contribHideKeep(W, id) ==
  LET W1 == getOrCreatePlaceholder(W, id)
  IN PutNode(W1, id, [NodeAt(W1, id) EXCEPT !.disp = "none"])

\* hide / disappear
contribHide(W, id) ==
  LET W1 == getOrCreatePlaceholder(W, id) IN PutNode(W1, id, HiddenNode)

contribToggle(W, id, ctx, js) ==
  LET W1 == getOrCreatePlaceholder(W, id)
      n == NodeAt(W1, id)
  IN IF n.disp = "none" \/ n.content = <<>> THEN contribShow(W1, id, ctx, js)
     ELSE contribHide(W1, id)

contribCallAction(W, action, id, ctx, js) ==
  IF action \in {"show", "unhide", "render"} THEN contribShow(W, id, ctx, js)
  ELSE IF action \in {"hide", "disappear"} THEN contribHide(W, id)
  ELSE IF action = "toggle" THEN contribToggle(W, id, ctx, js)
  ELSE Warn(getOrCreatePlaceholder(W, id), 1)

\* a parseFunctionBody that refuses every action without allowJs
parseFunctionBodyGated(W, act, ctx, js) ==
  IF ~js THEN Warn(W, 1)
  ELSE IF act.verb \in {"hide", "unhide", "show", "toggle"}
       THEN contribCallAction(W, act.verb, act.id, ctx, js)
       ELSE IF act.verb = "js" THEN Run(W, act.id) ELSE Warn(W, 1)

\* parseFunctionBody(body, shadowRoot, allowJs) for a one-line action string
parseFunctionBody(W, act, ctx, js) ==
  IF act.verb \in {"hide", "unhide", "show", "toggle"}
  THEN contribCallAction(W, act.verb, act.id, ctx, js)
  ELSE IF act.verb = "script"
       \* simpleCallMatch is the first call: of the body; the arm returns
       THEN contribCallAction(W, firstCall(ScriptActs(act.id)).verb,
                              firstCall(ScriptActs(act.id)).id, ctx, js)
  ELSE IF act.verb = "markup"
       THEN LET P == renderTinyMarkFragment(<<T(FALSE, act.id)>>, ctx, js)
            IN IF ctx = 0 THEN W ELSE [W EXCEPT !.out[ctx] = @ \o P.els]
  ELSE IF act.verb = "js" /\ js THEN Run(W, act.id)
  ELSE Warn(W, 1)   \* Unable to parse function body

\* executeIdFunction(id, shadowRoot, allowJs); every entry has type 'oncall'
executeIdFunction(W, id, ctx, js) ==
  IF id \notin DOMAIN W.fn THEN Warn(W, 1)
  ELSE parseFunctionBody(Interp(W, W.fn[id]), W.fn[id], ctx, js)

\* handleOnClickFunction(body, shadowRoot, allowJs)
handleOnClickFunction(W, act, ctx, js) ==
  IF act.verb = "callid" THEN executeIdFunction(Interp(W, act), act.id, ctx, js)
  ELSE parseFunctionBody(Interp(W, act), act, ctx, js)

\* ---------------------------------------------------------------- documents
\* The source texts an instance may hold (its textContent, or the text behind a
\* src url): the hide-region scenario, the README example (every line indented,
\* a comment first), a re-declaration of p1 with another body, a block whose
\* body carries a js: button, and a page of buttons.
DocNames == {"secret", "readme", "news", "gated", "caller"}

Doc(d) ==
  CASE d = "secret" ->
         <<Hide(FALSE, "p1"), T(FALSE, "secret"), EndHide(FALSE), Placeholder(FALSE, "p1"),
           Btn(FALSE, "onclick", Call("toggle", "p1"))>>
    [] d = "readme" ->
         <<Comment(TRUE), Btn(TRUE, "onclick", Call("toggle", "p1")), Hide(TRUE, "p1"),
           T(TRUE, "secret"), EndHide(TRUE), Placeholder(TRUE, "p1")>>
    [] d = "news" ->
         <<Hide(FALSE, "p1"), T(FALSE, "new"), EndHide(FALSE)>>
    [] d = "gated" ->
         <<Hide(FALSE, "p2"), Btn(FALSE, "onclick", Js), EndHide(FALSE), Placeholder(FALSE, "p2")>>
    [] d = "caller" ->
         <<Btn(FALSE, "onclick", Call("show", "p2")), Btn(FALSE, "onclick", Js),
           Btn(FALSE, "attr", Js), Btn(FALSE, "attr", Call("show", "p1"))>>
    [] d = "funcs" ->
         <<IdLine(FALSE, "f", "oncall", Call("show", "p1")),
           Hide(FALSE, "p1"), T(FALSE, "secret"), EndHide(FALSE),
           Btn(FALSE, "onclick", CallFn("f")), Btn(FALSE, "onclick", CallId("f"))>>
    [] d = "intro" ->
         <<T(FALSE, "before"), IdLine(FALSE, "intro", "appear", Markup("hi")),
           T(FALSE, "after"), Btn(FALSE, "onclick", CallId("g"))>>
    [] d = "jsfn" ->
         <<IdLine(FALSE, "f", "oncall", Js), Btn(FALSE, "onclick", CallId("f"))>>
    [] d = "panel" ->
         <<Hide(FALSE, "p1"), Btn(FALSE, "onclick", Call("hide", "p1")), EndHide(FALSE),
           Placeholder(FALSE, "p1"), Btn(FALSE, "onclick", Call("toggle", "p1")),
           Btn(FALSE, "attr", Js)>>
    [] d = "loop" ->
         <<Hide(FALSE, "p1"),
           Line(FALSE, "t", "again", "", "onload", Call("show", "p1")),
           EndHide(FALSE), Btn(FALSE, "onclick", Call("show", "p1"))>>
    [] d = "greet" ->
         <<Hide(FALSE, "p1"), T(FALSE, "secret"), EndHide(FALSE),
           Line(FALSE, "t", "hello", "", "onload", Call("toggle", "p1"))>>
    [] d = "callf" ->
         <<Btn(FALSE, "onclick", Call("show", "p2")), Btn(FALSE, "onclick", CallId("f"))>>
    [] d = "script" ->
         <<IdLine(FALSE, "f", "oncall", [verb |-> "script", id |-> "ab"]), Hide(FALSE, "p2"), T(FALSE, "two"),
           EndHide(FALSE), Btn(FALSE, "onclick", CallId("f"))>>
    [] d = "rows" ->
         <<Line(FALSE, "row", "", "", "", NoAct), T(FALSE, "a"),
           Line(FALSE, "col", "", "", "", NoAct), T(FALSE, "b"), T(FALSE, "c")>>
    [] d = "grid" ->
         <<T(FALSE, "top"), Line(FALSE, "row", "", "", "", NoAct),
           Line(FALSE, "col", "", "", "", NoAct), T(FALSE, "a"),
           Line(FALSE, "row", "", "", "", NoAct), T(FALSE, "b")>>

\* the texts an instance takes on the page of one instance
BlockDocs == {"secret", "readme", "news"}
\* the texts instance i takes on the page of two instances
GateDocs(i) == IF i = 1 THEN {"secret", "gated"} ELSE {"gated", "caller"}

\* the texts of the page that declares functions, and the names it calls
FnDocs == {"funcs", "intro", "jsfn", "panel"}
FnNames == {"f", "g"}
\* the texts of the page whose elements act on load
LoadDocs == {"loop", "greet"}
\* the texts of the pages that are only rendered
RenderDocs == {"rows", "grid", "secret"}

Range(f) == {f[x] : x \in DOMAIN f}

\* ---------------------------------------------------------------- render of an instance
\* contrib: this.shadowRoot.innerHTML = '' followed by parseLines and
\* createElementFromParsed of every item (render and loadFromSrc). A
\* `.placeholder` node of the old output that the registry still names and
\* the new output does not declare again stays registered, in no document.
\* contribFill without `this.shadowRoot.innerHTML = ''`: the nodes of the
\* pass are appended behind those of the pass before
contribFillAppend(W, i, P) ==
  [W EXCEPT !.hb = registerHideBlocks(@, P.regs),
            !.fn = registerHideBlocks(@, P.fns),
            !.ol = @ \o P.loads,
            !.decl[i] = [id \in Range(P.phs) |-> HiddenNode],
            !.out[i] = @ \o P.els]

contribFill(W, i, P) ==
  LET declared == Range(P.phs)
      dropped == {id \in DOMAIN W.decl[i] :
                    id \in DOMAIN W.ph /\ W.ph[id] = DeclRef(i) /\ id \notin declared}
      ph2 == [id \in (DOMAIN W.ph) \cup declared |->
                IF id \in declared THEN DeclRef(i)
                ELSE IF id \in dropped THEN DetRef ELSE W.ph[id]]
      det2 == [id \in {x \in DOMAIN ph2 : ph2[x] = DetRef} |->
                IF id \in dropped THEN W.decl[i][id] ELSE W.det[id]]
  IN Warn([W EXCEPT !.hb = registerHideBlocks(@, P.regs),
                    !.fn = registerHideBlocks(@, P.fns),
                    !.ol = @ \o P.loads,
                    !.ph = ph2,
                    !.det = det2,
                    !.decl[i] = [id \in declared |-> HiddenNode],
                    !.out[i] = P.els], P.warns)

\* contrib TinyMarkElement.render(): nothing when the instance has src
contribRender(W, i, lines, js, hasSrc) ==
  IF hasSrc THEN W ELSE contribFill(W, i, parseLinesFrom(lines, 1, i, js))

\* flash TinyMarkElement.render(): shadowRoot.innerHTML = '', then
\* toFragment(this.textContent.trim(), false)
flashRender(W, i, lines, js1) ==
  LET P == toFragment(Trim(lines), FALSE, js1)
      W1 == Warn([W EXCEPT !.hb = registerHideBlocks(@, P.regs),
                           !.out[i] = IF P.threw THEN <<>> ELSE P.els], P.warns)
  IN IF P.threw THEN Throw(W1) ELSE W1

\* el.render() with the attributes as given
render(W, i, lines, js, hasSrc) ==
  IF impl = "flash" THEN flashRender(W, i, lines, js[1])
  ELSE contribRender(W, i, lines, js[i], hasSrc)

\* tinymarkClient.toHTML(tinyText)
flashToHTML(W, lines, js1) ==
  LET P == toFragment(lines, FALSE, js1)
      W1 == Warn([W EXCEPT !.hb = registerHideBlocks(@, P.regs)], P.warns)
  IN IF P.threw THEN Throw(W1) ELSE W1

contribToHTML(W, lines) ==
  LET P == parseLinesFrom(lines, 1, 0, FALSE)
      declared == Range(P.phs)
      ph2 == [id \in (DOMAIN W.ph) \cup declared |->
                IF id \in declared THEN DetRef ELSE W.ph[id]]
      det2 == [id \in {x \in DOMAIN ph2 : ph2[x] = DetRef} |->
                IF id \in declared THEN HiddenNode ELSE W.det[id]]
  IN Warn([W EXCEPT !.hb = registerHideBlocks(@, P.regs),
                    !.fn = registerHideBlocks(@, P.fns),
                    !.ol = @ \o P.loads,
                    !.ph = ph2, !.det = det2], P.warns)

toHTML(W, lines) ==
  IF impl = "flash" THEN flashToHTML(W, lines, allowJs[1]) ELSE contribToHTML(W, lines)

\* ---------------------------------------------------------------- public API
\* show(id): contrib tinymarkClient.unhide(id); flash
\* tinymarkClient.executeCallAction('show', id)
apiShow(W, id) ==
  IF impl = "flash" THEN flashCallAction(W, "show", id, allowJs[1])
  ELSE contribCallAction(W, "unhide", id, 0, FALSE)

apiHide(W, id) ==
  IF impl = "flash" THEN flashCallAction(W, "hide", id, allowJs[1])
  ELSE contribCallAction(W, "hide", id, 0, FALSE)

apiToggle(W, id) ==
  IF impl = "flash" THEN flashCallAction(W, "toggle", id, allowJs[1])
  ELSE contribCallAction(W, "toggle", id, 0, FALSE)

\* the click listeners of an element
click(W, el) ==
  IF el.h.k = "none" THEN W
  ELSE IF impl = "flash" THEN executeAction(W, el.h.act, el.h.js, allowJs[1])
  ELSE IF el.h.k = "fn" THEN handleOnClickFunction(W, el.h.act, el.h.ctx, el.h.js)
  ELSE Run(Interp(W, el.h.act), el.h.act.id)

\* ---------------------------------------------------------------- state machine
\* The last operation: its name, the id and instance it acted on, vis: the
\* placeholder of id was visible with content when it began, chain: 1 after a
\* show of a registered id with no hide timer pending, 2 and 3 after the first
\* and second toggle of the same id that follow it with only timer callbacks
\* in between, else 0. For the answer of a fetch, id is the url and chain the
\* number of the fetch; for an onload callback chain alternates between 0 and
\* 1 while callbacks follow one another.
Op(op, id, inst, vis, chain) == [op |-> op, id |-> id, inst |-> inst, vis |-> vis, chain |-> chain]
NoOp == Op("none", "", 0, FALSE, 0)
NoUrl == "none"
Urls == {"a", "b", "bad"}
\* a fetch issued by instance inst for url, its n-th
Fetch(inst, url, n) == [inst |-> inst, url |-> url, n |-> n]
\* the text the server answers with; "bad" answers with an error status
Remote(url) == IF url = "a" THEN "secret" ELSE IF url = "js" THEN "caller" ELSE "news"
\* the <p style="color:red"> of a failed load
ErrorEl == Element(Line(FALSE, "error", "", "", "", NoAct), NoH)

Commit(W) ==
  /\ \A id \in Ids : W.tm[id] <= MaxTimers
  /\ hiddenBlocks' = W.hb
  /\ placeholders' = W.ph
  /\ lazyNode' = W.lazy
  /\ declNode' = W.decl
  /\ detNode' = W.det
  /\ timers' = W.tm
  /\ Len(W.ol) <= MaxOnloads
  /\ idFunctions' = W.fn
  /\ onloads' = W.ol
  /\ out' = W.out
  /\ fx' = W.fx

\* the page after the engine script ran and before any instance is connected;
\* texts and srcs are the inline sources and src attributes the markup may give
\* no parse going on
NoParse == [lines |-> <<>>, i |-> 0, pc |-> "idle"]

\* the page after load; parses: the passes of the line parser under way
BootParse(texts, srcs, parses) ==
  /\ impl \in Impls
  /\ mounted = [i \in Instances |-> FALSE]
  /\ observing = [i \in Instances |-> FALSE]
  /\ allowJs \in [Instances -> BOOLEAN]
  /\ text \in texts
  /\ out = [i \in Instances |-> <<>>]
  /\ hiddenBlocks = Empty
  /\ placeholders = Empty
  /\ lazyNode = Empty
  /\ declNode = [i \in Instances |-> Empty]
  /\ detNode = Empty
  /\ timers = [id \in Ids |-> 0]
  /\ idFunctions = Empty
  /\ onloads = <<>>
  /\ srcAttr \in srcs
  /\ inflight = {}
  /\ seq = [i \in Instances |-> 0]
  /\ fx = NoFx
  /\ last = NoOp
  /\ parser \in parses

Boot(texts, srcs) == BootParse(texts, srcs, {NoParse})

\* the placeholder of id is registered, displayed and has content
Visible(id) == id \in DOMAIN placeholders /\ Showing(NodeAt(World, id))

\* Instance i is created or upgraded in the document: the
\* attributeChangedCallback of every attribute the markup gives, then
\* connectedCallback. With src both callbacks start a fetch; the render of the
\* allow-js callback is repeated by connectedCallback. When the render of
\* connectedCallback throws, the observer is not set up and the fetch of
\* connectedCallback is not started.
Connect(i) ==
  /\ ~mounted[i]
  /\ mounted' = [mounted EXCEPT ![i] = TRUE]
  /\ Commit(render(World, i, Doc(text[i]), allowJs, srcAttr[i] # NoUrl))
  /\ observing' = [observing EXCEPT ![i] = ~fx'.threw]
  /\ IF srcAttr[i] = NoUrl
     THEN UNCHANGED <<seq, inflight>>
     ELSE IF fx'.threw
          THEN /\ seq' = [seq EXCEPT ![i] = @ + 1]
               /\ inflight' = inflight \cup {Fetch(i, srcAttr[i], seq[i] + 1)}
          ELSE /\ seq' = [seq EXCEPT ![i] = @ + 2]
               /\ inflight' = inflight \cup {Fetch(i, srcAttr[i], seq[i] + 1),
                                             Fetch(i, srcAttr[i], seq[i] + 2)}
  /\ last' = Op("render", "", i, FALSE, 0)
  /\ UNCHANGED <<parser, impl, allowJs, text, srcAttr>>

\* the inline source of instance i is replaced; the MutationObserver renders
Mutate(i, d) ==
  /\ mounted[i]
  /\ d # text[i]
  /\ text' = [text EXCEPT ![i] = d]
  /\ Commit(IF observing[i] THEN render(World, i, Doc(d), allowJs, srcAttr[i] # NoUrl)
            ELSE World)
  /\ last' = Op(IF observing[i] THEN "render" ELSE "none", "", i, FALSE, 0)
  /\ UNCHANGED <<parser, impl, mounted, observing, allowJs, srcAttr, inflight, seq>>

Show(id) ==
  /\ Commit(apiShow(World, id))
  /\ last' = Op("show", id, 0, Visible(id),
                IF NoBody(World, id) \/ timers[id] > 0 THEN 0 ELSE 1)
  /\ UNCHANGED <<parser, impl, mounted, observing, allowJs, text, srcAttr, inflight, seq>>

HideCall(id) ==
  /\ Commit(apiHide(World, id))
  /\ last' = Op("hide", id, 0, Visible(id), 0)
  /\ UNCHANGED <<parser, impl, mounted, observing, allowJs, text, srcAttr, inflight, seq>>

Toggle(id) ==
  /\ Commit(apiToggle(World, id))
  /\ last' = Op("toggle", id, 0, Visible(id),
                IF last.id = id /\ last.chain \in {1, 2} THEN last.chain + 1 ELSE 0)
  /\ UNCHANGED <<parser, impl, mounted, observing, allowJs, text, srcAttr, inflight, seq>>

\* a click on element k of the output of instance i
Click(i, k) ==
  /\ mounted[i]
  /\ k \in DOMAIN out[i]
  /\ out[i][k].src.sel = "btn"
  /\ Commit(click(World, out[i][k]))
  /\ last' = Op("click", "", i, FALSE, 0)
  /\ UNCHANGED <<parser, impl, mounted, observing, allowJs, text, srcAttr, inflight, seq>>

\* a click on element k shown in the placeholder of id
ClickIn(id, k) ==
  /\ id \in DOMAIN placeholders
  /\ placeholders[id].loc # "det"
  /\ LET n == NodeAt(World, id) IN
       /\ n.disp # "none"
       /\ k \in DOMAIN n.content
       /\ n.content[k].src.sel = "btn"
       /\ Commit(click(World, n.content[k]))
  /\ last' = Op("click", id, placeholders[id].inst, FALSE, 0)
  /\ UNCHANGED <<parser, impl, mounted, observing, allowJs, text, srcAttr, inflight, seq>>

\* tinymarkClient.callFunction(f); tinymark.js defines no such function, the
\* call is a TypeError in the calling script
apiCallFunction(W, f) ==
  IF impl = "flash" THEN Throw(W) ELSE executeIdFunction(W, f, 0, FALSE)

CallFunction(f) ==
  /\ Commit(apiCallFunction(World, f))
  /\ last' = Op("callFunction", f, 0, FALSE, 0)
  /\ UNCHANGED <<parser, impl, mounted, observing, allowJs, text, srcAttr, inflight, seq>>

\* the oldest 100 ms callback of a function:onload runs:
\* parseFunctionBody(attrs.functionBody, shadowRoot, allowJs)
OnloadFire ==
  /\ onloads # <<>>
  /\ LET h == Head(onloads)
     IN Commit(parseFunctionBody(Interp([World EXCEPT !.ol = Tail(onloads)], h.act),
                                 h.act, h.ctx, h.js))
  /\ last' = Op("onload", Head(onloads).act.id, Head(onloads).ctx, FALSE,
                IF last.op = "onload" THEN 1 - last.chain ELSE 0)
  /\ UNCHANGED <<parser, impl, mounted, observing, allowJs, text, srcAttr, inflight, seq>>

\* a 300 ms hide callback runs (flash)
Timeout(id) ==
  /\ timers[id] > 0
  /\ Commit(flashHideTimeout(World, id))
  /\ UNCHANGED <<parser, impl, mounted, observing, allowJs, text, srcAttr, inflight, seq, last>>

\* a script of the page hides the placeholder of id (element.style.display = 'none')
ExternalHide(id) ==
  /\ id \in DOMAIN placeholders
  /\ NodeAt(World, id).disp # "none"
  /\ Commit(PutNode(World, id, [NodeAt(World, id) EXCEPT !.disp = "none"]))
  /\ last' = Op("external", id, 0, FALSE, 0)
  /\ UNCHANGED <<parser, impl, mounted, observing, allowJs, text, srcAttr, inflight, seq>>

\* tinymarkClient.toHTML(Doc(d))
ToHTML(d) ==
  /\ Commit(toHTML(World, Doc(d)))
  /\ last' = Op("toHTML", "", 0, FALSE, 0)
  /\ UNCHANGED <<parser, impl, mounted, observing, allowJs, text, srcAttr, inflight, seq>>

\* the allow-js attribute of instance i is set or removed:
\* attributeChangedCallback renders
SetAllowJs(i) ==
  /\ mounted[i]
  /\ allowJs' = [allowJs EXCEPT ![i] = ~@]
  /\ Commit(render(World, i, Doc(text[i]), allowJs', srcAttr[i] # NoUrl))
  /\ last' = Op("render", "", i, FALSE, 0)
  /\ UNCHANGED <<parser, impl, mounted, observing, text, srcAttr, inflight, seq>>

\* the src attribute of instance i is changed to u: attributeChangedCallback
\* starts a fetch (flash fetchAndRender(newValue), contrib loadFromSrc())
SetSrc(i, u) ==
  /\ mounted[i]
  /\ u # srcAttr[i]
  /\ seq[i] < MaxFetch
  /\ srcAttr' = [srcAttr EXCEPT ![i] = u]
  /\ seq' = [seq EXCEPT ![i] = @ + 1]
  /\ inflight' = inflight \cup {Fetch(i, u, seq[i] + 1)}
  /\ fx' = NoFx
  /\ last' = Op("src", "", i, FALSE, 0)
  /\ UNCHANGED <<parser, impl, mounted, observing, allowJs, text, out, hiddenBlocks, placeholders, lazyNode,
                 declNode, detNode, timers, idFunctions, onloads>>

\* flash fetchAndRender after `await response.text()`: this.textContent = text,
\* and the MutationObserver renders when the text differs from the last seen
flashLoaded(W, i, old, new, js1) ==
  IF new = old THEN W ELSE flashRender(W, i, Doc(new), js1)

\* contrib loadFromSrc after `await response.text()`
contribLoaded(W, i, new, js) == contribFill(W, i, parseLinesFrom(Doc(new), 1, i, js))

\* a catch arm that leaves the output as it was
flashFailedSilent(W, i) == W

\* the catch arm: shadowRoot.innerHTML = '<p style="color: red;">...'
flashFailed(W, i) == [W EXCEPT !.out[i] = <<ErrorEl>>]

contribFailed(W, i) == contribFill(W, i, Pass(<<ErrorEl>>, <<>>, <<>>, 0))

\* the response of fetch r arrives with status ok
FetchOk(r) ==
  /\ r \in inflight
  /\ r.url # "bad"
  /\ inflight' = inflight \ {r}
  /\ IF impl = "flash"
     THEN /\ text' = [text EXCEPT ![r.inst] = Remote(r.url)]
          /\ Commit(IF observing[r.inst]
                    THEN flashLoaded(World, r.inst, text[r.inst], Remote(r.url), allowJs[1])
                    ELSE World)
     ELSE /\ text' = text
          /\ Commit(contribLoaded(World, r.inst, Remote(r.url), allowJs[r.inst]))
  /\ last' = Op("loaded", r.url, r.inst, FALSE, r.n)
  /\ UNCHANGED <<parser, impl, mounted, observing, allowJs, srcAttr, seq>>

\* fetch r fails (network error or a non-OK status)
FetchFail(r) ==
  /\ r \in inflight
  /\ r.url = "bad"
  /\ inflight' = inflight \ {r}
  /\ Commit(IF impl = "flash" THEN flashFailed(World, r.inst) ELSE contribFailed(World, r.inst))
  /\ last' = Op("failed", r.url, r.inst, FALSE, r.n)
  /\ UNCHANGED <<parser, impl, mounted, observing, allowJs, text, srcAttr, seq>>

\* ---------------------------------------------------------------- specifications
\* A page with one instance holding inline blocks, driven by the public API,
\* clicks, the hide timers, toHTML and scripts of the page (instance 2 is
\* never connected).
Init ==
  /\ Boot({[i \in Instances |-> IF i = 1 THEN d ELSE "gated"] : d \in BlockDocs},
          {[i \in Instances |-> NoUrl]})
  /\ ~allowJs[2]

Next ==
  \/ Connect(1)
  \/ \E d \in BlockDocs : Mutate(1, d)
  \/ SetAllowJs(1)
  \/ \E id \in Ids : Show(id)
  \/ \E id \in Ids : HideCall(id)
  \/ \E id \in Ids : Toggle(id)
  \/ \E k \in 1..MaxLines : Click(1, k)
  \/ \E id \in Ids, k \in 1..MaxLines : ClickIn(id, k)
  \/ \E id \in Ids : Timeout(id)
  \/ \E id \in Ids : ExternalHide(id)
  \/ \E d \in DocNames : ToHTML(d)

Spec == Init /\ [][Next]_vars

\* A page with two instances that share the registries: clicks and renders.
InitGate ==
  Boot({t \in [Instances -> DocNames] : \A i \in Instances : t[i] \in GateDocs(i)},
       {[i \in Instances |-> NoUrl]})

NextGate ==
  \/ \E i \in Instances : Connect(i)
  \/ \E i \in Instances : \E d \in GateDocs(i) : Mutate(i, d)
  \/ \E i \in Instances : SetAllowJs(i)
  \/ \E id \in Ids : Show(id)
  \/ \E i \in Instances, k \in 1..MaxLines : Click(i, k)
  \/ \E id \in Ids, k \in 1..MaxLines : ClickIn(id, k)

SpecGate == InitGate /\ [][NextGate]_vars

\* A page whose first instance has the src attribute (instance 2 is never
\* connected).
InitFetch ==
  Boot({[i \in Instances |-> "readme"]},
       {[i \in Instances |-> IF i = 1 THEN u ELSE NoUrl] : u \in Urls})

NextFetch ==
  \/ Connect(1)
  \/ \E d \in BlockDocs : Mutate(1, d)
  \/ \E u \in Urls : SetSrc(1, u)
  \/ \E r \in inflight : FetchOk(r)
  \/ \E r \in inflight : FetchFail(r)
  \/ SetAllowJs(1)

SpecFetch == InitFetch /\ [][NextFetch]_vars

\* A page whose first instance declares `.id` functions and calls them
\* (instance 2 is never connected).
InitFn ==
  /\ Boot({[i \in Instances |-> IF i = 1 THEN d ELSE "gated"] : d \in FnDocs},
          {[i \in Instances |-> NoUrl]})
  /\ ~allowJs[2]

NextFn ==
  \/ Connect(1)
  \/ \E d \in FnDocs : Mutate(1, d)
  \/ SetAllowJs(1)
  \/ \E k \in 1..MaxLines : Click(1, k)
  \/ \E id \in Ids, k \in 1..MaxLines : ClickIn(id, k)
  \/ \E f \in FnNames : CallFunction(f)
  \/ \E id \in Ids : Show(id)
  \/ \E id \in Ids : HideCall(id)
  \/ \E id \in Ids : Timeout(id)

SpecFn == InitFn /\ [][NextFn]_vars

\* A page whose first instance wires function:onload handlers. The page acts
\* (a trigger) only when no deferred callback is pending; the callbacks the
\* engine handed to setTimeout always run.
Quiet == onloads = <<>> /\ \A id \in Ids : timers[id] = 0

InitLoad ==
  Boot({[i \in Instances |-> IF i = 1 THEN d ELSE "gated"] : d \in LoadDocs},
       {[i \in Instances |-> NoUrl]})

NextLoad ==
  \/ OnloadFire
  \/ \E id \in Ids : Timeout(id)
  \/ Quiet /\ Connect(1)
  \/ Quiet /\ \E d \in LoadDocs : Mutate(1, d)
  \/ Quiet /\ SetAllowJs(1)
  \/ Quiet /\ \E k \in 1..MaxLines : Click(1, k)
  \/ Quiet /\ \E id \in Ids : Show(id)
  \/ Quiet /\ \E id \in Ids : HideCall(id)

SpecLoad ==
  /\ InitLoad
  /\ [][NextLoad]_vars
  /\ WF_vars(OnloadFire)
  /\ \A id \in Ids : WF_vars(Timeout(id))

\* ------------------------------------------- show and hide calls only
\* The page of one instance is loaded; afterwards only tinymarkClient.show
\* and tinymarkClient.hide are called, at arbitrary times between the 300 ms
\* callbacks.
SpecCalls ==
  /\ Init
  /\ [][\/ Connect(1)
        \/ \E id \in Ids : Show(id)
        \/ \E id \in Ids : HideCall(id)
        \/ \E id \in Ids : Timeout(id)]_vars
  /\ \A id \in Ids : WF_vars(Timeout(id))

\* ------------------------------------------- two instances, one capability each
\* The attributes stay as the markup gave them; blocks and functions declared
\* by one instance are shown and called from the other and through the API.
SpecIso ==
  /\ Boot([Instances -> {"gated", "jsfn", "callf"}], {[i \in Instances |-> NoUrl]})
  /\ [][\/ \E i \in Instances : Connect(i)
        \/ \E id \in Ids : Show(id)
        \/ \E f \in FnNames : CallFunction(f)
        \/ \E i \in Instances, k \in 1..MaxLines : Click(i, k)
        \/ \E id \in Ids, k \in 1..MaxLines : ClickIn(id, k)]_vars

\* ------------------------------------------- allow-js switched on a loaded page
\* Instance 1 takes its source from the url "js", instance 2 has the same
\* source inline; the allow-js attribute of either is switched while the page
\* is used.
SpecStale ==
  /\ Boot({[i \in Instances |-> "caller"]},
          {[i \in Instances |-> IF i = 1 THEN "js" ELSE NoUrl]})
  /\ [][\/ \E i \in Instances : Connect(i)
        \/ \E r \in inflight : FetchOk(r)
        \/ \E i \in Instances : SetAllowJs(i)
        \/ \E i \in Instances, k \in 1..MaxLines : Click(i, k)]_vars

\* ------------------------------------------- a function of several actions
\* Instance 1 declares the block p1, instance 2 the block p2 and the function
\* f whose body shows p1 and hides p2.
SpecScript ==
  /\ Boot({[i \in Instances |-> IF i = 1 THEN "secret" ELSE "script"]},
          {[i \in Instances |-> NoUrl]})
  /\ [][\/ \E i \in Instances : Connect(i)
        \/ \E id \in Ids : Show(id)
        \/ \E id \in Ids : HideCall(id)
        \/ \E f \in FnNames : CallFunction(f)
        \/ \E i \in Instances, k \in 1..MaxLines : Click(i, k)
        \/ \E id \in Ids : Timeout(id)]_vars

\* ------------------------------------------- pages that are only rendered
SpecRender ==
  /\ Boot([Instances -> RenderDocs], {[i \in Instances |-> NoUrl]})
  /\ [][\/ \E i \in Instances : Connect(i)
        \/ \E i \in Instances, d \in RenderDocs : Mutate(i, d)
        \/ \E i \in Instances : SetAllowJs(i)]_vars

\* ------------------------------------------- the line parsers, step by step
\* A physical line is the sequence of its tokens. Selector, quoted text,
\* attribute and function:NAME tokens are separated by one blank; "(" , ")"
\* and words follow their predecessor directly; Sp is leading white space.
Tok(k, v) == [k |-> k, v |-> v]
Sp == Tok("sp", " ")
Lp == Tok("open", "(")
Rp == Tok("close", ")")
\* the separator a collected body is joined with (';' or '\n')
Nl == Tok("nl", "")
Sel(s) == Tok("sel", s)
Q(s) == Tok("q", s)
Word(s) == Tok("w", s)

Least(S) == CHOOSE x \in S : \A y \in S : x <= y
Greatest(S) == CHOOSE x \in S : \A y \in S : x >= y

\* String.prototype.trim
trim(l) ==
  LET ks == {k \in DOMAIN l : l[k] # Sp}
  IN IF ks = {} THEN <<>> ELSE SubSeq(l, Least(ks), Greatest(ks))

\* String.prototype.indexOf from position `from`, 1-based; 0 when absent
indexOf(l, t, from) ==
  LET ks == {k \in DOMAIN l : k >= from /\ l[k] = t}
  IN IF ks = {} THEN 0 ELSE Least(ks)

\* the lines of a collected body joined with the separator
RECURSIVE join(_)
join(ls) ==
  IF ls = <<>> THEN <<>>
  ELSE IF Len(ls) = 1 THEN ls[1]
  ELSE ls[1] \o <<Nl>> \o join(Tail(ls))

\* the source texts the parsers are run on
PhysLine(name) ==
  CASE name = "t" -> <<Sel("t"), Q("hi")>>
    [] name = "idopen" -> <<Sel("id"), Q("x"), Tok("fn", "oncall"), Lp>>
    [] name = "loadopen" -> <<Sel("id"), Q("x"), Tok("fn", "onload"), Lp>>
    [] name = "call" -> <<Sp, Word("call:show:a")>>
    [] name = "nested" -> <<Sp, Word("js:alert"), Lp, Word("1"), Rp>>
    [] name = "close" -> <<Rp>>
    [] name = "hide" -> <<Sel("hide"), Tok("attr", "p1")>>
    [] name = "endhide" -> <<Sel("endhide")>>
    [] name = "btn" -> <<Sel("btn"), Q("go"), Tok("fn", "onclick"), Lp,
                         Word("js:alert"), Lp, Word("1"), Rp, Rp>>
PhysLines ==
  {PhysLine(name) : name \in {"t", "idopen", "loadopen", "call", "nested", "close",
                              "hide", "endhide", "btn"}}
PhysTexts == UNION {[1..n -> PhysLines] : n \in 1..MaxPhys}

\* a ParseNode: selector, quoted text, function type and body, first line
ParseNode(sel, txt, fn, body, at) ==
  [sel |-> sel, txt |-> txt, fn |-> fn, body |-> body, at |-> at]

\* the quoted text that follows the selector, "" when there is none
textOf(t) == IF Len(t) >= 2 /\ t[2].k = "q" THEN t[2].v ELSE ""
\* the id attribute of a line, "" when there is none
idOf(t) ==
  LET ks == {k \in DOMAIN t : t[k].k = "attr"}
  IN IF ks = {} THEN "" ELSE t[Least(ks)].v

\* the state of a pass over `lines`: i lines are behind the cursor, reads[k]
\* counts how often line k was taken, nodes/regs/fns are the ParseNodes, the
\* registerHideBlock calls and the FunctionRegistry entries made so far
StartParse(lines) ==
  [lines |-> lines, i |-> 0, pc |-> "loop", reads |-> [k \in DOMAIN lines |-> 0],
   nodes |-> <<>>, regs |-> <<>>, fns |-> <<>>]

\* the cursor moved to `to`: every line passed on the way was taken once more
advance(P, to) ==
  [P EXCEPT !.i = to,
            !.reads = [k \in DOMAIN P.lines |->
                         IF k > P.i /\ k <= to THEN P.reads[k] + 1 ELSE P.reads[k]]]

\* /^\.(?:id|\w+)\s+.*function\s*:\s*([a-zA-Z]+)\s*\(\s*$/ on the raw line:
\* the position of the function:NAME token, 0 when the line does not match
funcStartMatch(line) ==
  LET fs == {f \in DOMAIN line :
               /\ line[1].k = "sel"
               /\ f > 1 /\ line[f].k = "fn"
               /\ \E e \in DOMAIN line :
                    /\ e > f /\ line[e] = Lp
                    /\ \A m \in DOMAIN line : (m > f /\ m # e) => line[m] = Sp}
  IN IF fs = {} THEN 0 ELSE Greatest(fs)

\* lines[k].trim().endsWith(')')
endsWithClose(l) == LET t == trim(l) IN t # <<>> /\ t[Len(t)] = Rp

\* /^\.hide(?:\s+id\s*:\s*("?)([^"\s]+)\1)?\s*$/i on the raw line
hideStartTokens(line) ==
  /\ line # <<>> /\ line[1] = Sel("hide")
  /\ \A k \in DOMAIN line : k > 1 => line[k].k \in {"attr", "sp"}
  /\ Cardinality({k \in DOMAIN line : line[k].k = "attr"}) <= 1

\* /^\.endhide(...)?\s*$/i on the trimmed line
endHideMatch(line) ==
  LET t == trim(line)
  IN /\ t # <<>> /\ t[1] = Sel("endhide")
     /\ \A k \in DOMAIN t : k > 1 => t[k].k = "attr"

\* the first of the lines numbered ks, Len(lines) + 1 when there is none
firstAfter(lines, ks) == IF ks = {} THEN Len(lines) + 1 ELSE Least(ks)

\* One iteration of the while loop of TinyMarkRenderer.toFragment.
flashIteration(P) ==
  LET lines == P.lines
      n == Len(lines)
      at == P.i + 1
      raw == lines[at]
      f == funcStartMatch(raw)
      stop == firstAfter(lines, {k \in DOMAIN lines : k > at /\ endsWithClose(lines[k])})
      body == IF f = 0 THEN <<>> ELSE join(SubSeq(lines, at + 1, stop - 1))
      \* the cursor behind the collected body and its closing line
      i2 == IF f = 0 THEN at ELSE IF stop <= n THEN stop ELSE n
      \* line.replace(/\s*\(\s*$/, '') + '(' + body.join(';') + ')'
      line == IF f = 0 THEN raw ELSE SubSeq(raw, 1, f) \o <<Lp>> \o body \o <<Rp>>
      stopH == firstAfter(lines, {k \in DOMAIN lines : k > i2 /\ endHideMatch(lines[k])})
      t == trim(line)
      g == IF \E k \in DOMAIN t : t[k].k = "fn" /\ k < Len(t) /\ t[k + 1] = Lp
             THEN Least({k \in DOMAIN t : t[k].k = "fn" /\ k < Len(t) /\ t[k + 1] = Lp})
             ELSE 0
      \* function\s*:\s*([a-zA-Z]+)\s*\((.*?)\) on the attributes of an .id line
      funcMatch == g # 0 /\ indexOf(t, Rp, g + 2) # 0
      \* the value of the function attribute behind NAME( up to the last ")"
      attrBody == IF g = 0 THEN <<>>
                  ELSE IF f # 0 THEN body
                  ELSE SubSeq(t, g + 2, Greatest({k \in DOMAIN t : k = g + 1 \/ t[k] = Rp}) - 1)
  IN IF trim(raw) = <<>> THEN advance(P, at)
     ELSE IF hideStartTokens(line)
       THEN [advance(P, IF stopH <= n THEN stopH ELSE n)
               EXCEPT !.regs = @ \o <<<<idOf(line), SubSeq(lines, i2 + 1, stopH - 1)>>>>]
     ELSE IF t[1].k # "sel" THEN advance(P, i2)
     ELSE IF /\ t[1].v = "id" /\ (idOf(t) # "" \/ textOf(t) # "") /\ funcMatch
             /\ t[g].v \in {"appear", "disappear", "onload"}
       \* registerId: TinyMarkEngine.idFunctions is undefined
       THEN [advance(P, i2) EXCEPT !.pc = "threw"]
     ELSE [advance(P, i2) EXCEPT
             !.nodes = @ \o <<ParseNode(t[1].v, textOf(t),
                                        IF g = 0 THEN "" ELSE t[g].v, attrBody, at)>>]

\* One iteration of the while loop of parseLines.
contribIteration(P) ==
  LET lines == P.lines
      n == Len(lines)
      at == P.i + 1
      line == trim(lines[at])
      rest == Tail(line)
      fs == {k \in DOMAIN rest : rest[k].k = "fn" /\ k < Len(rest) /\ rest[k + 1] = Lp}
      startIndex == indexOf(rest, Lp, 1)
      \* the depth behind the first j tokens from startIndex on
      depth(j) == Cardinality({m \in startIndex..j : rest[m] = Lp})
                    - Cardinality({m \in startIndex..j : rest[m] = Rp})
      ends == {j \in DOMAIN rest : j >= startIndex /\ rest[j] = Rp /\ depth(j) = 0}
      endIndex == IF ends = {} THEN 0 ELSE Least(ends)
      \* the first following line with a ")" in it
      hasClose(l) == indexOf(l, Rp, 1) # 0
      stop == firstAfter(lines, {k \in DOMAIN lines : k > at /\ hasClose(lines[k])})
      closeIndex == IF stop <= n THEN indexOf(lines[stop], Rp, 1) ELSE 0
      \* the body lines are appended with a '\n' in front of each
      RECURSIVE glue(_)
      glue(ls) == IF ls = <<>> THEN <<>> ELSE <<Nl>> \o ls[1] \o glue(Tail(ls))
      funcBody ==
        IF endIndex # 0 THEN trim(SubSeq(rest, startIndex + 1, endIndex - 1))
        ELSE trim(SubSeq(rest, startIndex + 1, Len(rest)))
               \o glue(SubSeq(lines, at + 1, stop - 1))
               \o (IF stop <= n THEN <<Nl>> \o SubSeq(lines[stop], 1, closeIndex - 1) ELSE <<>>)
      \* the cursor behind the construct: the trailing i++ included
      i2 == IF endIndex # 0 THEN at ELSE stop
      stopH == firstAfter(lines, {k \in DOMAIN lines : k > at /\ endHideMatch(lines[k])})
  IN IF line = <<>> \/ line[1].k # "sel" THEN advance(P, at)
     ELSE IF line[1].v = "hide"
       THEN [advance(P, IF stopH <= n THEN stopH ELSE n + 1)
               EXCEPT !.regs = @ \o <<<<IF idOf(rest) # "" THEN idOf(rest) ELSE textOf(line),
                                        SubSeq(lines, at + 1, stopH - 1)>>>>]
     ELSE IF line[1].v = "endhide" THEN advance(P, at)
     ELSE IF fs # {}
       THEN [advance(P, i2) EXCEPT
               !.nodes = @ \o <<ParseNode(line[1].v, textOf(line), rest[Least(fs)].v,
                                          funcBody, at)>>]
     ELSE [advance(P, at) EXCEPT
             !.nodes = @ \o <<ParseNode(line[1].v, textOf(line), "", <<>>, at)>>]

\* The for loop of render over the parsed nodes: the `.id` arm of
\* createElementFromParsed writes the FunctionRegistry.
contribRegister(P) ==
  LET ks == {k \in DOMAIN P.nodes :
               /\ P.nodes[k].sel = "id"
               /\ P.nodes[k].fn = "oncall"
               /\ P.nodes[k].body # <<>>}
      RECURSIVE entries(_)
      entries(k) ==
        IF k > Len(P.nodes) THEN <<>>
        ELSE (IF k \in ks THEN <<<<P.nodes[k].txt, P.nodes[k].body>>>> ELSE <<>>)
               \o entries(k + 1)
  IN [P EXCEPT !.fns = entries(1)]

ParseStep ==
  /\ parser.pc = "loop"
  /\ parser.i < Len(parser.lines)
  /\ parser' = IF impl = "flash" THEN flashIteration(parser) ELSE contribIteration(parser)
  /\ UNCHANGED <<impl, mounted, observing, allowJs, text, out, hiddenBlocks, placeholders,
                 lazyNode, declNode, detNode, timers, idFunctions, onloads, srcAttr, inflight,
                 seq, fx, last>>

\* the loop condition fails: the pass returns
ParseEnd ==
  /\ parser.pc = "loop"
  /\ parser.i >= Len(parser.lines)
  /\ parser' = [(IF impl = "flash" THEN parser ELSE contribRegister(parser))
                  EXCEPT !.pc = "done"]
  /\ UNCHANGED <<impl, mounted, observing, allowJs, text, out, hiddenBlocks, placeholders,
                 lazyNode, declNode, detNode, timers, idFunctions, onloads, srcAttr, inflight,
                 seq, fx, last>>

\* render()/toFragment(text) has been entered with a source text
InitParse ==
  /\ BootParse({[i \in Instances |-> "secret"]}, {[i \in Instances |-> NoUrl]},
               {StartParse(src) : src \in PhysTexts})
  /\ allowJs = [i \in Instances |-> FALSE]

SpecParse ==
  /\ InitParse
  /\ [][ParseStep \/ ParseEnd]_vars
  /\ WF_vars(ParseStep)
  /\ WF_vars(ParseEnd)

\* ---------------------------------------------------------------- claims
\* C1 (capability gate). A click on an element that carries a js: action and
\* whose enclosing instance has no allow-js runs no code and, when the action
\* came from function:onclick(...), emits a warning; whenever a click ran code,
\* the instance enclosing the clicked element has allow-js.
C1_CapabilityGate ==
  [][/\ \A i \in Instances, k \in 1..MaxLines :
          (Click(i, k) /\ out[i][k].src.act = Js /\ ~allowJs[i])
            => /\ fx'.ran = <<>>
               /\ out[i][k].src.fn = "onclick" => fx'.warns > 0
     /\ \A id \in Ids, k \in 1..MaxLines :
          (ClickIn(id, k) /\ placeholders[id].loc = "decl" /\ fx'.ran # <<>>)
            => allowJs[placeholders[id].inst]]_vars

\* a click inside a placeholder declared by an instance ran js code
C1_Witness ==
  /\ last.op = "click"
  /\ last.inst # 0
  /\ fx.ran # <<>>

\* C2 (click wiring). Each click on an element rendered from a line with
\* function:onclick(A) or a bare onclick:A interprets A exactly once (a js:
\* action on an instance without allow-js may be refused before the click), and
\* function:onclick(js:doSomething()) on an instance with allow-js runs
\* doSomething exactly once.
C2_ClickWiring ==
  [][\A i \in Instances, k \in 1..MaxLines :
       (Click(i, k) /\ out[i][k].src.fn \in {"onclick", "attr"})
         => /\ (out[i][k].src.act = Js => allowJs[i]) => fx'.interp = <<out[i][k].src.act>>
            /\ (out[i][k].src.fn = "onclick" /\ out[i][k].src.act = Js /\ allowJs[i])
                 => fx'.ran = <<Js.id>>]_vars

\* a click on a function:onclick(js:doSomething()) button ran the code once
C2_Witness ==
  /\ last.op = "click"
  /\ last.id = ""
  /\ fx.interp = <<Js>>
  /\ fx.ran = <<Js.id>>

\* C3 (toggle law). After show(id) of a registered id followed by toggle(id)
\* and toggle(id) again, with hide timers firing at any moment in between, the
\* block is visible once no timer is pending.
C3_ToggleLaw ==
  (last.op = "toggle" /\ last.chain = 3 /\ timers[last.id] = 0) => Visible(last.id)

\* show, toggle, toggle were performed and every timer has fired
C3_Witness ==
  /\ last.op = "toggle"
  /\ last.chain = 3
  /\ timers[last.id] = 0

\* C4 (toggle flips). After toggle(id) on a registered id, once no hide timer
\* is pending, the placeholder is hidden if it was visible with content when
\* toggle was called and visible if it was hidden or empty (also when a script
\* of the page had hidden it).
C4_ToggleFlips ==
  (last.op = "toggle" /\ ~NoBody(World, last.id) /\ timers[last.id] = 0)
    => (Visible(last.id) <=> ~last.vis)

\* a toggle of a registered id found the placeholder hidden and showed it
C4_Witness ==
  /\ last.op = "toggle"
  /\ ~NoBody(World, last.id)
  /\ timers[last.id] = 0
  /\ ~last.vis
  /\ Visible(last.id)

\* show(id) through the API, or a click on an element wired with call:show:id
ShowStep(id) ==
  \/ Show(id)
  \/ \E i \in Instances, k \in 1..MaxLines :
       /\ Click(i, k)
       /\ out[i][k].h.k = "fn"
       /\ out[i][k].h.act = Call("show", id)

\* C5 as stated: show(id) on an id without an entry in the HiddenBlockRegistry
\* creates no visible content, leaves the registries and the host tree
\* unchanged and warns exactly once.
C5_ShowUnregisteredNoOp ==
  [][\A id \in Ids :
       (ShowStep(id) /\ id \notin DOMAIN hiddenBlocks)
         => /\ ~Visible(id)'
            /\ UNCHANGED <<hiddenBlocks, placeholders, lazyNode, declNode, detNode, out>>
            /\ fx'.warns = 1]_vars

\* C5 (amended). show(id) on an id without an entry in the HiddenBlockRegistry
\* creates no visible content, warns exactly once, leaves the
\* HiddenBlockRegistry and the output of every instance unchanged; when the id
\* has no placeholder yet, a hidden empty placeholder is created in
\* document.body and bound in the PlaceholderRegistry, and nothing else
\* changes.
C5_ShowUnregistered ==
  [][\A id \in Ids :
       (ShowStep(id) /\ id \notin DOMAIN hiddenBlocks)
         => /\ ~Visible(id)'
            /\ fx'.warns = 1
            /\ fx'.ran = <<>>
            /\ UNCHANGED <<hiddenBlocks, declNode, detNode, out, timers>>
            /\ IF id \in DOMAIN placeholders
               THEN UNCHANGED <<placeholders, lazyNode>>
               ELSE /\ placeholders' = Upd(placeholders, id, LazyRef)
                    /\ lazyNode' = Upd(lazyNode, id, HiddenNode)]_vars

\* a show of an unregistered id has warned and left a hidden lazy placeholder
C5_Witness ==
  /\ last.op \in {"show", "click"}
  /\ fx.warns = 1
  /\ \E id \in Ids :
       /\ id \notin DOMAIN hiddenBlocks
       /\ id \in DOMAIN placeholders
       /\ placeholders[id] = LazyRef
       /\ lazyNode[id] = HiddenNode
       /\ last.op = "click" => fx.interp = <<Call("show", id)>>
       /\ last.op = "show" => last.id = id

\* C6 as stated: hide(id) on an id without a placeholder changes neither the
\* PlaceholderRegistry nor the host tree and does not warn; on an id with a
\* placeholder it clears and hides it (in flash: schedules that).
C6_HideNoPlaceholderNoOp ==
  [][\A id \in Ids :
       HideCall(id)
         => /\ fx'.warns = 0
            /\ id \notin DOMAIN placeholders
                 => UNCHANGED <<placeholders, lazyNode, declNode, detNode, out>>
            /\ id \in DOMAIN placeholders
                 => (NodeAt(World, id)' = HiddenNode \/ timers'[id] > timers[id])]_vars

\* C6 (amended). hide(id) never warns and never changes the
\* HiddenBlockRegistry or an instance's output. On an id without a placeholder
\* it creates a hidden empty placeholder in document.body and binds it; on an
\* id with a placeholder it clears the content and hides the placeholder, at
\* once in contrib and when the 300 ms timer it schedules fires in flash.
C6_Hide ==
  [][\A id \in Ids :
       /\ HideCall(id)
            => /\ fx'.warns = 0
               /\ UNCHANGED <<hiddenBlocks, out>>
               /\ placeholders' = (IF id \in DOMAIN placeholders THEN placeholders
                                   ELSE Upd(placeholders, id, LazyRef))
               /\ IF impl = "contrib"
                  THEN NodeAt(World, id)' = HiddenNode /\ UNCHANGED timers
                  ELSE /\ timers' = [timers EXCEPT ![id] = @ + 1]
                       /\ NodeAt(World, id)' =
                            (IF id \in DOMAIN placeholders THEN NodeAt(World, id) ELSE HiddenNode)
       /\ Timeout(id) => NodeAt(World, id)' = HiddenNode]_vars

\* hide(id) was called for a visible placeholder, which is now hidden and empty
C6_Witness ==
  /\ last.op = "hide"
  /\ last.vis
  /\ timers[last.id] = 0
  /\ NodeAt(World, last.id) = HiddenNode

\* the index of the `.endhide` line that closes the region opened at line h
\* (past the end when there is none)
RECURSIVE RegionEnd(_, _)
RegionEnd(lines, h) ==
  IF h + 1 > Len(lines) \/ lines[h + 1].sel = "endhide" THEN h + 1 ELSE RegionEnd(lines, h + 1)

\* C7 (hide region). Right after a render pass of instance i, for every
\* `.hide id:X` line of its source, indented or not, the lines up to the
\* matching `.endhide` are registered verbatim under X and none of them is the
\* source of a node of the instance's output.
C7_HideRegion ==
  \A i \in Instances :
    (last.op = "render" /\ last.inst = i)
      => LET lines == Doc(text[i]) IN
         \A h \in DOMAIN lines :
           (lines[h].sel = "hide" /\ lines[h].id # "")
             => /\ lines[h].id \in DOMAIN hiddenBlocks
                /\ hiddenBlocks[lines[h].id] = SubSeq(lines, h + 1, RegionEnd(lines, h) - 1)
                /\ \A k \in (h + 1)..(RegionEnd(lines, h) - 1), n \in DOMAIN out[i] :
                     out[i][n].src # lines[k]

\* an instance has just rendered the source whose hide region is indented
C7_Witness ==
  /\ last.op = "render"
  /\ last.inst = 1
  /\ text[1] = "readme"
  /\ out[1] # <<>>

\* the source lines of the nodes a placeholder holds
Sources(n) == [k \in DOMAIN n.content |-> n.content[k].src]

\* C8 (show renders once). Right after show(X) of a registered id X the
\* placeholder of X is visible and holds exactly one rendering of the
\* registered body, also when show is repeated without a hide in between.
C8_ShowOnce ==
  [][\A id \in Ids :
       (Show(id) /\ ~NoBody(World, id))
         => /\ Visible(id)'
            /\ Sources(NodeAt(World, id))' = hiddenBlocks'[id]]_vars

\* show(X) was repeated on a visible block
C8_Witness ==
  /\ last.op = "show"
  /\ last.vis
  /\ Visible(last.id)

\* C9 (toHTML is pure). A call of toHTML changes no registry, no placeholder
\* node and no instance output, schedules no timer and runs no js code.
C9_ToHTMLPure ==
  [][(\E d \in DocNames : ToHTML(d))
       => /\ UNCHANGED <<hiddenBlocks, placeholders, lazyNode, declNode, detNode, out, timers>>
          /\ fx'.ran = <<>>]_vars

\* toHTML was called on a page that has registered blocks
C9_Witness ==
  /\ last.op = "toHTML"
  /\ mounted[1]
  /\ hiddenBlocks # Empty

\* the output an instance shows for url: the error node, or the nodes of the
\* lines of the remote text outside its hide regions
Shown(i, url) ==
  IF url = "bad" THEN out[i] = <<ErrorEl>>
  ELSE LET lines == Doc(Remote(url))
           inRegion(k) == \E h \in 1..(k - 1) :
                            lines[h].sel = "hide" /\ k < RegionEnd(lines, h)
       IN /\ \A n \in DOMAIN out[i] : \E k \in DOMAIN lines : out[i][n].src = lines[k]
          /\ \A k \in DOMAIN lines :
               (lines[k].sel \in FlashTags /\ ~inRegion(k))
                 => \E n \in DOMAIN out[i] : out[i][n].src = lines[k]

\* C10 (stale fetch). When the last answer to the fetches of an instance has
\* arrived, in whatever order they came, the instance shows the content or the
\* error of the request issued last, the one for the current src.
C10_StaleFetchDiscarded ==
  (last.op \in {"loaded", "failed"} /\ \A r \in inflight : r.inst # last.inst)
    => Shown(last.inst, srcAttr[last.inst])

\* the answer to a fetch of an older src arrived after every other answer
C10_Witness ==
  /\ last.op \in {"loaded", "failed"}
  /\ last.chain < seq[last.inst]
  /\ last.id # srcAttr[last.inst]
  /\ \A r \in inflight : r.inst # last.inst

\* the fetches of instance i that are not answered yet
Pending(i) == {r \in inflight : r.inst = i}

\* C11 (src replaces the inline source). For an instance with src, a render
\* pass at mount, on a mutation or on an attribute change that happens before
\* any fetch was answered leaves the output empty, and right after a fetch
\* succeeds the output is the rendering of the fetched text.
C11_SrcIgnoresInline ==
  /\ \A i \in Instances :
       (/\ last.op = "render"
        /\ last.inst = i
        /\ srcAttr[i] # NoUrl
        /\ Cardinality(Pending(i)) = seq[i])
         => out[i] = <<>>
  /\ last.op = "loaded" => Shown(last.inst, last.id)

\* an instance with src and an inline source was mounted and its fetch is pending
C11_Witness ==
  /\ last.op = "render"
  /\ last.inst = 1
  /\ mounted[1]
  /\ srcAttr[1] # NoUrl
  /\ Cardinality(Pending(1)) = seq[1]
  /\ seq[1] > 0

\* C12 (fetch failure). The failure of a fetch replaces the output of its
\* instance by the single error node and issues no request; a request is issued
\* only by the mount of the instance or by a change of its src.
C12_FetchFailure ==
  [][/\ \A r \in inflight :
          FetchFail(r) => /\ out'[r.inst] = <<ErrorEl>>
                          /\ seq' = seq
                          /\ inflight' = inflight \ {r}
     /\ \A i \in Instances :
          seq'[i] # seq[i] => \/ ~mounted[i] /\ mounted'[i]
                              \/ srcAttr'[i] # srcAttr[i]]_vars

\* a fetch failed and left the error node
C12_Witness ==
  /\ last.op = "failed"
  /\ out[last.inst] = <<ErrorEl>>
  /\ srcAttr[last.inst] = "bad"

\* line k of lines is between a `.hide` line and its `.endhide`
InRegion(lines, k) ==
  \E h \in 1..(k - 1) : lines[h].sel = "hide" /\ k < RegionEnd(lines, h)

\* C13 (render is total). No render pass of an instance ends in an uncaught
\* exception, and right after a render pass of an instance without src its
\* output is the single error node or holds a node for every text and button
\* line of its source outside the hide regions: one faulty line takes no other
\* line away.
C13_RenderTotal ==
  /\ last.op = "render" => ~fx.threw
  /\ \A i \in Instances :
       (last.op = "render" /\ last.inst = i /\ srcAttr[i] = NoUrl)
         => \/ out[i] = <<ErrorEl>>
            \/ LET lines == Doc(text[i]) IN
               \A k \in DOMAIN lines :
                 (lines[k].sel \in {"t", "btn"} /\ ~InRegion(lines, k))
                   => \E n \in DOMAIN out[i] : out[i][n].src = lines[k]

\* an instance has just rendered a source with an `.id ... function:appear(...)` line
C13_Witness ==
  /\ last.op = "render"
  /\ last.inst = 1
  /\ text[1] = "intro"
  /\ mounted[1]

\* C14 (re-entrancy terminates). Whenever a trigger left deferred callbacks
\* pending, the chain they start ends: a state with no pending callback is
\* reached.
C14_ChainTerminates == (~Quiet) ~> Quiet

\* the callback wired by a hidden body is pending after an onload callback has
\* rendered that body
C14_Witness ==
  /\ last.op = "onload"
  /\ onloads # <<>>
  /\ Visible("p1")

\* line h of lines is the last `.hide id:X` line for its id
LastDeclaration(lines, h) ==
  /\ lines[h].sel = "hide"
  /\ lines[h].id # ""
  /\ ~InRegion(lines, h)
  /\ \A g \in (h + 1)..Len(lines) :
       ~(lines[g].sel = "hide" /\ lines[g].id = lines[h].id /\ ~InRegion(lines, g))

\* C15 (registry persistence). No step removes an id from HiddenBlockRegistry,
\* and right after a render pass of an instance the body registered for every
\* id its source declares is the body of that declaration, whatever was
\* registered for the id before.
C15_RegistryPersists ==
  [][/\ \A id \in DOMAIN hiddenBlocks : id \in DOMAIN hiddenBlocks'
     /\ \A i \in Instances :
          (last'.op = "render" /\ last'.inst = i /\ srcAttr[i] = NoUrl)
            => LET lines == Doc(text'[i]) IN
               \A h \in DOMAIN lines :
                 LastDeclaration(lines, h)
                   => /\ lines[h].id \in DOMAIN hiddenBlocks'
                      /\ hiddenBlocks'[lines[h].id]
                           = SubSeq(lines, h + 1, RegionEnd(lines, h) - 1)]_vars

\* a render pass has declared p1 again with another body than the registered one
C15_Witness ==
  /\ last.op = "render"
  /\ last.inst = 1
  /\ text[1] = "readme"
  /\ "p1" \in DOMAIN hiddenBlocks
  /\ hiddenBlocks["p1"] = <<T(FALSE, "new")>>

\* C16 (placeholder binding). Right after a render pass of instance i that
\* declares `.placeholder id:X`, PlaceholderRegistry[X] is the node that pass
\* created; and right after show(X) of a registered id the handle of X is a
\* node of the live page (a declared node of a current output or the lazily
\* created one), never a node an earlier pass left behind.
C16_PlaceholderBinding ==
  /\ \A i \in Instances :
       (last.op = "render" /\ last.inst = i)
         => LET lines == Doc(text[i]) IN
            \A k \in DOMAIN lines :
              (lines[k].sel = "placeholder" /\ ~InRegion(lines, k))
                => /\ lines[k].id \in DOMAIN placeholders
                   /\ placeholders[lines[k].id] = DeclRef(i)
  /\ \A id \in Ids :
       (last.op = "show" /\ last.id = id /\ ~NoBody(World, id))
         => /\ id \in DOMAIN placeholders
            /\ placeholders[id].loc # "det"

\* show(p1) ran after the output that declared the placeholder of p1 was replaced
C16_Witness ==
  /\ last.op = "show"
  /\ last.id = "p1"
  /\ "p1" \in DOMAIN hiddenBlocks
  /\ mounted[1]
  /\ text[1] = "gated"

Plain(h) == IF h.k = "jsattr" THEN NoH ELSE [h EXCEPT !.js = FALSE]
PlainEls(els) == [k \in DOMAIN els |-> [els[k] EXCEPT !.h = Plain(@)]]
PlainNodes(f) == [id \in DOMAIN f |-> [f[id] EXCEPT !.content = PlainEls(@)]]
\* The page as it is in the run without allow-js: registries, visibility and
\* timers as they are, every listener without the capability.
PlainWorld(W) ==
  [W EXCEPT !.out = [i \in Instances |-> PlainEls(W.out[i])],
            !.lazy = PlainNodes(@),
            !.decl = [i \in Instances |-> PlainNodes(W.decl[i])],
            !.det = PlainNodes(@),
            !.ol = [k \in DOMAIN W.ol |-> Plain(W.ol[k])],
            !.fx = NoFx]
NoJs == [i \in Instances |-> FALSE]

\* C18 (allow-js gates js: only). Every render and every non-js operation
\* commutes with erasing the capability: the state it leads to, seen without
\* the capability, is the state the same operation leads to from the page
\* without the capability. Two runs of the same non-js operations that differ
\* only in allow-js therefore keep equal registries and equal block visibility.
\* (An API call records itself in last; the hide callback is the step that
\* lowers timers.)
C18_AllowJsGatesJsOnly ==
  [][LET P == PlainWorld(World) IN
     /\ (last'.op = "render" /\ (Connect(1) \/ SetAllowJs(1) \/ \E d \in FnDocs : Mutate(1, d)))
          => PlainWorld(World') = PlainWorld(render(P, 1, Doc(text'[1]), NoJs, FALSE))
     /\ \A k \in 1..MaxLines :
          (Click(1, k) /\ out[1][k].h.k # "jsattr" /\ out[1][k].h.act.verb # "js")
            => PlainWorld(World') = PlainWorld(click(P, P.out[1][k]))
     /\ \A id \in Ids, k \in 1..MaxLines :
          (ClickIn(id, k) /\ NodeAt(World, id).content[k].h.act.verb # "js")
            => PlainWorld(World') = PlainWorld(click(P, NodeAt(P, id).content[k]))
     /\ \A f \in FnNames :
          (last'.op = "callFunction" /\ last'.id = f /\ timers' = timers)
            => PlainWorld(World') = PlainWorld(apiCallFunction(P, f))
     /\ \A id \in Ids :
          /\ (last'.op = "show" /\ last'.id = id /\ timers' = timers)
               => PlainWorld(World') = PlainWorld(apiShow(P, id))
          /\ (last'.op = "hide" /\ last'.id = id /\ \A x \in Ids : timers'[x] >= timers[x])
               => PlainWorld(World') = PlainWorld(apiHide(P, id))
          /\ timers'[id] < timers[id]
               => PlainWorld(World') = PlainWorld(flashHideTimeout(P, id))]_vars

\* a click on a call: button of an instance with allow-js has shown a block
C18_Witness ==
  /\ impl = "contrib"
  /\ last.op = "click"
  /\ allowJs[1]
  /\ text[1] = "panel"
  /\ Visible("p1")
  /\ fx.interp # <<>>

\* C19 (.id registration). Right after a render pass of instance i, for every
\* `.id "N" function:kind(B)` line of its source: B is registered under N, in
\* HiddenBlockRegistry when kind is appear or disappear and in
\* FunctionRegistry when kind is oncall; no node of the output shows the text
\* of the line; and N is bound in PlaceholderRegistry.
C19_IdRegistration ==
  \A i \in Instances :
    (last.op = "render" /\ last.inst = i /\ srcAttr[i] = NoUrl)
      => LET lines == Doc(text[i]) IN
         \A k \in DOMAIN lines :
           (/\ lines[k].sel = "id"
            /\ lines[k].fn \in {"appear", "disappear", "oncall"}
            /\ ~InRegion(lines, k))
             => LET N == lines[k].txt
                    B == lines[k].act
                IN /\ lines[k].fn \in {"appear", "disappear"}
                        => N \in DOMAIN hiddenBlocks /\ hiddenBlocks[N] = <<T(FALSE, B.id)>>
                   /\ lines[k].fn = "oncall"
                        => N \in DOMAIN idFunctions /\ idFunctions[N] = B
                   /\ \A n \in DOMAIN out[i] : out[i][n].src # lines[k]
                   /\ N \in DOMAIN placeholders

\* an instance has just rendered `.id "f" function:oncall(call:show:p1)`
C19_Witness ==
  /\ last.op = "render"
  /\ last.inst = 1
  /\ text[1] = "funcs"
  /\ mounted[1]
  /\ "p1" \in DOMAIN hiddenBlocks

\* the operation interpreted the body registered under f
Invoked(f) == \E n \in DOMAIN fx'.interp : fx'.interp[n] = idFunctions[f]

\* C20 (call:<ID>). A click on an element carrying function:onclick(call:F),
\* and callFunction(F), interpret the body registered under F in
\* FunctionRegistry; when F is not registered they log a warning and change no
\* registry, placeholder or output.
C20_CallInvokesFunction ==
  [][\A f \in FnNames :
       LET clicked == \E k \in 1..MaxLines :
                        /\ Click(1, k)
                        /\ out[1][k].src.fn = "onclick"
                        /\ out[1][k].src.act = CallFn(f)
       IN (clicked \/ CallFunction(f))
            => IF f \in DOMAIN idFunctions
               THEN Invoked(f)
               ELSE /\ fx'.warns > 0
                    /\ UNCHANGED <<hiddenBlocks, idFunctions, placeholders, lazyNode,
                                   declNode, detNode, out>>]_vars

\* the button function:onclick(call:f) was clicked while f was registered
C20_Witness ==
  /\ last.op = "click"
  /\ last.inst = 1
  /\ text[1] = "funcs"
  /\ "f" \in DOMAIN idFunctions
  /\ fx.warns > 0

\* C21 (onload runs once, deferred). A render pass of an instance that starts
\* with no callback pending neither interprets an action itself nor leaves
\* more or less than one pending callback for every line outside the hide
\* regions that carries function:onload(A); and the callback that runs
\* interprets its A and is pending no longer.
C21_OnloadOnce ==
  [][/\ \A i \in Instances :
          (last'.op = "render" /\ last'.inst = i /\ onloads = <<>> /\ timers' = timers
             /\ (Connect(i) \/ SetAllowJs(i) \/ \E d \in LoadDocs : Mutate(i, d)))
            => LET lines == Doc(text'[i]) IN
               /\ fx'.interp = <<>>
               /\ \A k \in DOMAIN lines :
                    (lines[k].fn = "onload" /\ ~InRegion(lines, k))
                      => Cardinality({n \in DOMAIN onloads' :
                                        /\ onloads'[n].act = lines[k].act
                                        /\ onloads'[n].ctx = i}) = 1
     /\ OnloadFire => /\ fx'.interp # <<>>
                      /\ fx'.interp[1] = Head(onloads).act
                      /\ Len(onloads') >= Len(onloads) - 1]_vars

\* the callback of an element of the output has run, after the render pass
C21_Witness ==
  /\ last.op = "onload"
  /\ text[1] = "greet"
  /\ onloads = <<>>
  /\ fx.interp = <<Call("toggle", "p1")>>

\* the tokens of line l occur in body, in order and side by side
Contains(body, l) ==
  \E s \in 0..Len(body) :
    s + Len(l) <= Len(body) /\ SubSeq(body, s + 1, s + Len(l)) = l

\* line k opens a function:oncall( body of `.id "x"` that lines k+1..c-1 fill
\* with plain action lines and line c closes, and no line before k opens a
\* construct
IdBlock(lines, k, c) ==
  /\ k \in DOMAIN lines /\ c \in DOMAIN lines /\ c > k + 1
  /\ lines[k] = PhysLine("idopen")
  /\ lines[c] = PhysLine("close")
  /\ \A m \in (k + 1)..(c - 1) : lines[m] = PhysLine("call")
  /\ \A m \in 1..(k - 1) : lines[m] \in {PhysLine("t"), PhysLine("btn")}

\* C23 (multi-line .id function). When a pass has returned, a multi-line
\* `.id "x" function:oncall(` ... `)` of its source has made exactly one
\* FunctionRegistry entry for x, the body of the entry contains every inner
\* line, and no inner line nor the closing line has a ParseNode of its own or
\* was taken more than once.
C23_MultiLineIdFunction ==
  parser.pc = "done" =>
    \A k, c \in DOMAIN parser.lines :
      IdBlock(parser.lines, k, c) =>
        /\ Cardinality({n \in DOMAIN parser.fns : parser.fns[n][1] = "x"}) = 1
        /\ \A n \in DOMAIN parser.fns :
             parser.fns[n][1] = "x" =>
               \A m \in (k + 1)..(c - 1) : Contains(parser.fns[n][2], trim(parser.lines[m]))
        /\ \A n \in DOMAIN parser.nodes : parser.nodes[n].at \notin (k + 1)..c
        /\ \A m \in k..c : parser.reads[m] = 1

\* a pass over the four-line block has returned with the entry for x
C23_Witness ==
  /\ parser.pc = "done"
  /\ IdBlock(parser.lines, 1, 4)
  /\ Len(parser.fns) = 1
  /\ parser.fns[1][1] = "x"
  /\ Contains(parser.fns[1][2], <<Word("call:show:a")>>)

\* the text of a body: its tokens without white space and line separators
BodyText(toks) == SelectSeq(toks, LAMBDA t : t # Sp /\ t # Nl)

\* the tokens that follow the "(" behind function:NAME on line k, to the end
\* of the source
RECURSIVE flatten(_)
flatten(ls) == IF ls = <<>> THEN <<>> ELSE <<Nl>> \o ls[1] \o flatten(Tail(ls))
Behind(lines, k) ==
  LET l == lines[k]
      f == Least({j \in DOMAIN l : l[j].k = "fn"})
  IN SubSeq(l, f + 2, Len(l)) \o flatten(SubSeq(lines, k + 1, Len(lines)))

\* the positions of s where a ")" balances the "(" behind NAME
Balancing(s) ==
  {j \in DOMAIN s :
     /\ s[j] = Rp
     /\ Cardinality({m \in 1..j : s[m] = Rp}) = 1 + Cardinality({m \in 1..j : s[m] = Lp})}

\* C25 (paren depth of a multi-line body). When a pass has returned, every
\* ParseNode whose function:NAME( is not closed on its own line, and is
\* balanced further down, has as its body the text between the paren behind
\* NAME and the balancing ")": a nested "(" ... ")" in a body line does not
\* end the body.
C25_ParenDepth ==
  parser.pc = "done" =>
    \A n \in DOMAIN parser.nodes :
      LET k == parser.nodes[n].at
          s == Behind(parser.lines, k)
      IN (/\ parser.nodes[n].fn # ""
          /\ parser.lines[k][Len(parser.lines[k])] = Lp
          /\ Balancing(s) # {})
           => BodyText(parser.nodes[n].body) = BodyText(SubSeq(s, 1, Least(Balancing(s)) - 1))

\* a pass has returned a node whose body was collected from two lines
C25_Witness ==
  /\ parser.pc = "done"
  /\ parser.lines = <<PhysLine("idopen"), PhysLine("call"), PhysLine("call"), PhysLine("close")>>
  /\ Len(parser.nodes) = 1
  /\ BodyText(parser.nodes[1].body) = <<Word("call:show:a"), Word("call:show:a")>>

\* C26 (the line parser terminates). Every iteration moves the cursor
\* forward, no line is taken twice, and a pass never ends in an error; a pass
\* that has returned took every line exactly once and gave the lines that
\* follow an unterminated `.hide` or function:NAME( at the head of the text
\* to that construct as its body; and the cursor never passes the end of the
\* text by more than one line, so that the iterations are bounded.
C26_ParserTerminates ==
  /\ [][ParseStep => parser'.i > parser.i]_vars
  /\ [](/\ parser.pc # "threw"
        /\ \A k \in DOMAIN parser.lines : parser.reads[k] <= 1)
  /\ [](LET \* line k opens a `.hide` region that no `.endhide` closes
            OpenRegion(lines, k) ==
              /\ lines[k] = PhysLine("hide")
              /\ \A m \in DOMAIN lines : m > k => lines[m] # PhysLine("endhide")
            \* line k opens a function:NAME( body that no ")" balances
            OpenBody(lines, k) ==
              /\ lines[k] \in {PhysLine("idopen"), PhysLine("loadopen")}
              /\ Balancing(Behind(lines, k)) = {}
        IN parser.pc = "done" =>
          /\ \A k \in DOMAIN parser.lines : parser.reads[k] = 1
          /\ OpenRegion(parser.lines, 1) =>
               parser.regs = <<<<"p1", SubSeq(parser.lines, 2, Len(parser.lines))>>>>
          /\ OpenBody(parser.lines, 1) =>
               /\ parser.nodes # <<>>
               /\ BodyText(parser.nodes[1].body) = BodyText(Behind(parser.lines, 1)))
  /\ [](parser.i <= Len(parser.lines) + 1)

\* a pass over an unterminated function body has returned at the end of input
C26_Witness ==
  /\ parser.pc = "done"
  /\ parser.lines = <<PhysLine("t"), PhysLine("idopen"), PhysLine("call"), PhysLine("call")>>
  /\ parser.i >= 4
  /\ Len(parser.nodes) = 2
  /\ BodyText(parser.nodes[2].body) = <<Word("call:show:a"), Word("call:show:a")>>

\* The node the k-th element of an output is appended to, 0 for the fragment
\* or container itself: both render loops append every element they create
\* to the fragment (frag.appendChild(node)) or the container
\* (container.appendChild(el)), and no element is given child elements.
parentNode(els, k) == 0

\* C22 (row grouping). In the output of an instance every element created
\* while a row is open lies inside that row: a column is a child of the last
\* row opened before it, and any other element is a child of that row or of
\* a column of it; only a row itself is appended at the top level.
C22_RowGrouping ==
  \A i \in Instances :
    \A k \in DOMAIN out[i] :
      LET els == out[i]
          \* the rows opened before the k-th element
          rows == {j \in 1..(k - 1) : els[j].src.sel = "row"}
          r == Greatest(rows)
      IN (rows # {} /\ els[k].src.sel # "row") =>
           IF els[k].src.sel = "col"
           THEN parentNode(els, k) = r
           ELSE parentNode(els, k) \in {j \in r..(k - 1) : els[j].src.sel \in {"row", "col"}}

\* the row scenario has been rendered: five elements, the row first
C22_Witness ==
  /\ mounted[1]
  /\ text[1] = "rows"
  /\ Len(out[1]) = 5
  /\ out[1][1].src.sel = "row"
  /\ out[1][5].src.txt = "c"

\* C24 (render idempotence). When an instance whose output is that of a
\* render of its source is rendered again with the same source (the allow-js
\* attribute was switched, nothing else happened), the new output has the
\* same elements in the same order as the old one, listeners compared without
\* the captured capability, the same `.placeholder` nodes, and the block
\* registry is as it was: the nodes of the first pass do not accumulate.
C24_RenderIdempotent ==
  [][\A i \in Instances :
       (/\ mounted[i] /\ observing[i]
        /\ last'.op = "render" /\ last'.inst = i
        /\ text' = text
        /\ allowJs'[i] # allowJs[i])
         => /\ Len(out'[i]) = Len(out[i])
            /\ PlainEls(out'[i]) = PlainEls(out[i])
            /\ DOMAIN declNode'[i] = DOMAIN declNode[i]
            /\ hiddenBlocks' = hiddenBlocks]_vars

\* the row scenario was rendered a second time and still has five elements
C24_Witness ==
  /\ last.op = "render" /\ last.inst = 1
  /\ text[1] = "rows"
  /\ mounted[1] /\ ~mounted[2]
  /\ allowJs[1]
  /\ Len(out[1]) = 5

\* C27 (the last call wins). For a registered id whose show or hide call was
\* the last call, once no 300 ms callback is pending the placeholder is
\* visible with content exactly when that call was a show.
C27_LastCallWins ==
  \A id \in Ids :
    (/\ \A x \in Ids : timers[x] = 0
     /\ last.op \in {"show", "hide"}
     /\ last.id = id
     /\ ~NoBody(World, id))
      => (Visible(id) <=> last.op = "show")

\* a show was called while a hide was pending, and the callback has fired
C27_Witness ==
  /\ last.op = "show" /\ last.id = "p1"
  /\ last.vis
  /\ last.chain = 0
  /\ ~NoBody(World, "p1")
  /\ \A x \in Ids : timers[x] = 0

\* C28 (capability isolation across instances). Whenever an operation has
\* run the code of a js: action, an instance that declares that action has
\* allow-js: a block or function body declared only by instances without
\* allow-js runs no code, whichever instance or API call shows or calls it.
C28_DeclaringCapability ==
  LET \* instance i declares a js: action, in a hidden block or a function body
      DeclaresJs(i) ==
        /\ mounted[i]
        /\ \E k \in DOMAIN Doc(text[i]) : Doc(text[i])[k].act = Js
  IN fx.ran # <<>> => \E i \in Instances : DeclaresJs(i) /\ allowJs[i]

\* the block of instance 1 was shown from instance 2 and its button clicked
C28_Witness ==
  /\ text = <<"gated", "callf">>
  /\ mounted[1] /\ mounted[2]
  /\ last.op = "click" /\ last.id = "p2"
  /\ Visible("p2")

\* C29 (capability currency). When the last operation was a click on an
\* element of the output of an instance and it ran the code of a js: action,
\* that instance has allow-js now, at the time of the click: once allow-js is
\* removed, no click on the output of the instance runs code, whether the
\* source was inline or loaded from src.
C29_CapabilityCurrent ==
  (last.op = "click" /\ last.inst \in Instances /\ fx.ran # <<>>) => allowJs[last.inst]

\* a js: button of the inline instance was clicked after allow-js was removed
C29_Witness ==
  /\ last.op = "click" /\ last.inst = 2
  /\ ~allowJs[2]
  /\ fx.warns > 0
  /\ fx.ran = <<>>

\* C30 (every action of a function body). On the page where p1, p2 and the
\* function f with the body `call:show:p1` / `call:hide:p2` are declared and
\* f is in the FunctionRegistry, after f was invoked, by the API or by a click on `call:(id:f)`, and no
\* 300 ms callback is pending, p1 is visible with content and p2 is not: both
\* actions were interpreted, in source order.
C30_EveryAction ==
  (/\ mounted[1] /\ mounted[2]
   /\ "f" \in DOMAIN idFunctions
   /\ \A x \in Ids : timers[x] = 0
   /\ \/ last.op = "callFunction" /\ last.id = "f"
      \/ last.op = "click" /\ last.inst = 2 /\ fx.interp # <<>> /\ fx.interp[1] = CallId("f"))
    => /\ Visible("p1")
       /\ ~Visible("p2")

\* f was invoked while p2 was visible, and p1 is shown
C30_Witness ==
  /\ mounted[1] /\ mounted[2]
  /\ "f" \in DOMAIN idFunctions
  /\ last.op = "callFunction" /\ last.id = "f"
  /\ Visible("p1")
  /\ Visible("p2")

====
